---------------------------- MODULE Spec2Model ----------------------------
(***************************************************************************)
(* A model of the Unicode transcoding library in src/unicode.c: the        *)
(* codepoint validator, the three decoders and three encoders, the six     *)
(* transcoders (the UTFCONV loop), the six length estimators, the three    *)
(* string validators and the three strlen routines.                        *)
(*                                                                         *)
(* Representation.  A buffer is a sequence of code units; a C pointer into *)
(* it is the buffer together with a 0-based offset.  8- and 16-bit units   *)
(* are naturals.  A 32-bit word (unipoint_t, utf32_char_t) is held as its  *)
(* two's-complement signed value, so that every word fits a 32-bit        *)
(* integer: the words 0 .. 2^31-1 are themselves and the word u >= 2^31    *)
(* is u - 2^32.  Unsigned comparisons of words go through Lt32 / Le32.     *)
(***************************************************************************)
EXTENDS Integers, Sequences, FiniteSets, TLC

(***************************************************************************)
(* Machine arithmetic                                                      *)
(***************************************************************************)

\* Unsigned a < b on 32-bit words.
Lt32(a, b) == IF (a < 0) = (b < 0) THEN a < b ELSE b < 0

\* Unsigned a <= b on 32-bit words.
Le32(a, b) == a = b \/ Lt32(a, b)

\* The high and the low 16 bits of a 32-bit word, and the word made of them.
Hi16(w) == IF w < 0 THEN ((w + 2147483647) + 1) \div 65536 + 32768 ELSE w \div 65536

Lo16(w) == w % 65536

W32(hi, lo) == IF hi >= 32768 THEN (hi - 65536) * 65536 + lo ELSE hi * 65536 + lo

\* Bitwise or and bitwise and of two naturals.
RECURSIVE BitOr(_, _)
BitOr(a, b) ==
    IF a = 0 THEN b
    ELSE IF b = 0 THEN a
    ELSE (IF (a % 2) + (b % 2) > 0 THEN 1 ELSE 0) + 2 * BitOr(a \div 2, b \div 2)

RECURSIVE BitAnd(_, _)
BitAnd(a, b) ==
    IF a = 0 \/ b = 0 THEN 0
    ELSE (IF (a % 2) + (b % 2) = 2 THEN 1 ELSE 0) + 2 * BitAnd(a \div 2, b \div 2)

\* x << n, for operands that stay below 2^31.
RECURSIVE Shl(_, _)
Shl(x, n) == IF n = 0 THEN x ELSE Shl(2 * x, n - 1)

\* x >> n
RECURSIVE Shr(_, _)
Shr(x, n) == IF n = 0 THEN x ELSE Shr(x \div 2, n - 1)

\* ({ uint16_t x = (i); (((x >> 8) & 0x00FF) | ((x << 8) & 0xFF00)); })
__byte_swap_16(i) ==
    LET x == Lo16(i)
    IN  BitOr(BitAnd(Shr(x, 8), \h00FF), BitAnd(Shl(x, 8), \hFF00))

\* __builtin_bswap32: the four bytes of the word in reverse order.
__byte_swap_32(i) == W32(__byte_swap_16(Lo16(i)), __byte_swap_16(Hi16(i)))

(***************************************************************************)
(* Constants of src/unicode.c                                              *)
(***************************************************************************)

SURROGATE_HIGH_START == \hD800
SURROGATE_HIGH_END == \hDBFF
SURROGATE_LOW_START == \hDC00
SURROGATE_LOW_END == \hDFFF
UTF16_ONE_CHAR_LIMIT == \h10000
UTF8_ONE_CHAR_LIMIT == \h80
UTF8_TWO_CHAR_LIMIT == \h800
UTF8_THREE_CHAR_LIMIT == \h10000
UNICODE_FINAL_POINT == \h10FFFF
UTF8_SEQ_MAX_CHARS == 4
UNICODE_REPL_CHAR == \hFFFD

\* Indexed by the leading byte (+ 1: sequences are 1-based).
UTF8_TRAILING_COUNT ==
    << 0, 0, 0, 0, 0, 0, 0, 0, 0, 0, 0, 0, 0, 0, 0, 0,
       0, 0, 0, 0, 0, 0, 0, 0, 0, 0, 0, 0, 0, 0, 0, 0,
       0, 0, 0, 0, 0, 0, 0, 0, 0, 0, 0, 0, 0, 0, 0, 0,
       0, 0, 0, 0, 0, 0, 0, 0, 0, 0, 0, 0, 0, 0, 0, 0,
       0, 0, 0, 0, 0, 0, 0, 0, 0, 0, 0, 0, 0, 0, 0, 0,
       0, 0, 0, 0, 0, 0, 0, 0, 0, 0, 0, 0, 0, 0, 0, 0,
       0, 0, 0, 0, 0, 0, 0, 0, 0, 0, 0, 0, 0, 0, 0, 0,
       0, 0, 0, 0, 0, 0, 0, 0, 0, 0, 0, 0, 0, 0, 0, 0,
       0, 0, 0, 0, 0, 0, 0, 0, 0, 0, 0, 0, 0, 0, 0, 0,
       0, 0, 0, 0, 0, 0, 0, 0, 0, 0, 0, 0, 0, 0, 0, 0,
       0, 0, 0, 0, 0, 0, 0, 0, 0, 0, 0, 0, 0, 0, 0, 0,
       0, 0, 0, 0, 0, 0, 0, 0, 0, 0, 0, 0, 0, 0, 0, 0,
       1, 1, 1, 1, 1, 1, 1, 1, 1, 1, 1, 1, 1, 1, 1, 1,
       1, 1, 1, 1, 1, 1, 1, 1, 1, 1, 1, 1, 1, 1, 1, 1,
       2, 2, 2, 2, 2, 2, 2, 2, 2, 2, 2, 2, 2, 2, 2, 2,
       3, 3, 3, 3, 3, 3, 3, 3, 4, 4, 4, 4, 5, 5, 5, 5 >>

\* Indexed by the char count (+ 1).
UTF8_ENCODING_OVERFLOW ==
    << 0,
       0,
       BitOr(Shl(\hC0, 6), Shl(\h80, 0)),
       BitOr(Shl(\hE0, 12), BitOr(Shl(\h80, 6), Shl(\h80, 0))),
       BitOr(Shl(\hF0, 18), BitOr(Shl(\h80, 12), BitOr(Shl(\h80, 6), Shl(\h80, 0)))) >>

\* Indexed by the char count (+ 1).
UTF8_INITIAL_MASK == << \b00000000, \b00000000, \b11000000, \b11100000, \b11110000 >>

(***************************************************************************)
(* Buffers                                                                 *)
(***************************************************************************)

\* *(p + i) for a pointer p at offset 0 of buf.  A read outside the buffer
\* is recorded by the caller's read mark (rd_hi); the 0 is never used by a
\* run whose read mark stays inside the buffer.
At(buf, i) == IF 0 <= i /\ i < Len(buf) THEN buf[i + 1] ELSE 0

\* *(p + i) = v.  A write outside the buffer is recorded by the write mark.
Put(buf, i, v) == IF 0 <= i /\ i < Len(buf) THEN [buf EXCEPT ![i + 1] = v] ELSE buf

Max(a, b) == IF a >= b THEN a ELSE b

Min(a, b) == IF a <= b THEN a ELSE b

(***************************************************************************)
(* Codepoint validation                                                    *)
(***************************************************************************)

\* __codepoint_is_valid without its test for the end of the code space.
__codepoint_is_valid_unbounded(codepoint) ==
    IF Le32(SURROGATE_HIGH_START, codepoint) /\ Le32(codepoint, SURROGATE_LOW_END) THEN 2 ELSE 0

\* __codepoint_is_valid without its test for the surrogate range.
__codepoint_is_valid_surrogates(codepoint) ==
    IF Lt32(UNICODE_FINAL_POINT, codepoint) THEN 3 ELSE 0

__codepoint_is_valid(codepoint) ==
    IF Le32(SURROGATE_HIGH_START, codepoint) /\ Le32(codepoint, SURROGATE_HIGH_END)
    THEN 2
    ELSE IF Le32(SURROGATE_LOW_START, codepoint) /\ Le32(codepoint, SURROGATE_LOW_END)
    THEN 2
    ELSE IF Lt32(UNICODE_FINAL_POINT, codepoint)
    THEN 3
    ELSE 0

(***************************************************************************)
(* Conversion between codepoints and UTF-8/16/32                           *)
(***************************************************************************)

__utf8_chars_for_codepoint(codepoint) ==
    IF Lt32(codepoint, UTF8_ONE_CHAR_LIMIT) THEN 1
    ELSE IF Lt32(codepoint, UTF8_TWO_CHAR_LIMIT) THEN 2
    ELSE IF Lt32(codepoint, UTF8_THREE_CHAR_LIMIT) THEN 3
    ELSE 4

\* The cascading switch of __utf8_decode: the sum of the cnt bytes at p,
\* each but the last followed by a shift left by 6.
RECURSIVE Utf8Sum(_, _, _, _)
Utf8Sum(src, p, cnt, acc) ==
    IF cnt = 1 THEN acc + At(src, p)
    ELSE Utf8Sum(src, p + 1, cnt - 1, Shl(acc + At(src, p), 6))

\* cnt is 1..4 at both call sites.  The sum is below 2^27 and the bias below
\* 2^26, so the difference is the two's-complement value of the unsigned
\* subtraction modulo 2^32.
__utf8_decode(src, p, cnt) == Utf8Sum(src, p, cnt, 0) - UTF8_ENCODING_OVERFLOW[cnt + 1]

__utf16_decode(leading_char, trailing_char) ==
    LET leading == Shl(BitAnd(leading_char, \h3FF), 10)
        trailing == Shl(BitAnd(trailing_char, \h3FF), 0)
    IN  BitOr(leading, trailing) + UTF16_ONE_CHAR_LIMIT


\* An encoder's result: n units reported produced, the buffer after its
\* writes, and wr, the number of units from dest + d on that it wrote.
EncResult(n, dest, wr) == [n |-> n, dest |-> dest, wr |-> wr]

\* bzero(dest + d, cnt)
RECURSIVE bzero(_, _, _)
bzero(dest, d, cnt) == IF cnt = 0 THEN dest ELSE bzero(Put(dest, d + cnt - 1, 0), d, cnt - 1)

\* The cascading switch of __utf8_from_codepoint: the trailing bytes
\* dest[char_count - 1] .. dest[1], last one first, then the leading byte.
RECURSIVE Utf8Store(_, _, _, _, _)
Utf8Store(dest, d, j, codepoint, char_count) ==
    IF j = 0
    THEN Put(dest, d, BitOr(codepoint, UTF8_INITIAL_MASK[char_count + 1]) % 256)
    ELSE Utf8Store(Put(dest, d + j, BitAnd(BitOr(codepoint, \b10000000), \b10111111)),
                   d, j - 1, Shr(codepoint, 6), char_count)

\* dest + d is the destination pointer, dest_size the units left from it.
\* __utf8_from_codepoint returning 0 on a short buffer without zeroing it.
__utf8_from_codepoint_nofill(codepoint, dest, d, dest_size) ==
    IF Lt32(codepoint, UTF8_ONE_CHAR_LIMIT)
    THEN EncResult(1, Put(dest, d, codepoint), 1)
    ELSE LET char_count == __utf8_chars_for_codepoint(codepoint)
         IN  IF char_count > dest_size
             THEN EncResult(0, dest, 0)
             ELSE EncResult(char_count,
                            Utf8Store(dest, d, char_count - 1, codepoint, char_count),
                            char_count)

__utf8_from_codepoint(codepoint, dest, d, dest_size) ==
    IF Lt32(codepoint, UTF8_ONE_CHAR_LIMIT)
    THEN EncResult(1, Put(dest, d, codepoint), 1)
    ELSE LET char_count == __utf8_chars_for_codepoint(codepoint)
         IN  IF char_count > dest_size
             THEN EncResult(0, bzero(dest, d, dest_size), dest_size)
             ELSE EncResult(char_count,
                            Utf8Store(dest, d, char_count - 1, codepoint, char_count),
                            char_count)

\* __utf16_from_codepoint reporting 0 chars and writing nothing when a
\* surrogate pair does not fit: the variant that treats a short buffer the way
\* __utf8_from_codepoint reports it.
__utf16_from_codepoint_nounit(codepoint, dest, d, dest_size, swap) ==
    IF Lt32(codepoint, UTF16_ONE_CHAR_LIMIT)
    THEN EncResult(1, Put(dest, d, IF swap THEN __byte_swap_16(codepoint) ELSE codepoint), 1)
    ELSE IF dest_size >= 2
    THEN LET cp == codepoint - UTF16_ONE_CHAR_LIMIT
             hi == BitOr(BitAnd(Shr(cp, 10), \h3FF), SURROGATE_HIGH_START)
             lo == BitOr(BitAnd(Shr(cp, 0), \h3FF), SURROGATE_LOW_START)
         IN  EncResult(2,
                       Put(Put(dest, d, IF swap THEN __byte_swap_16(hi) ELSE hi),
                           d + 1, IF swap THEN __byte_swap_16(lo) ELSE lo),
                       2)
    ELSE EncResult(0, dest, 0)

__utf16_from_codepoint(codepoint, dest, d, dest_size, swap) ==
    IF Lt32(codepoint, UTF16_ONE_CHAR_LIMIT)
    THEN EncResult(1, Put(dest, d, IF swap THEN __byte_swap_16(codepoint) ELSE codepoint), 1)
    ELSE IF dest_size >= 2
    THEN LET cp == codepoint - UTF16_ONE_CHAR_LIMIT
             hi == BitOr(BitAnd(Shr(cp, 10), \h3FF), SURROGATE_HIGH_START)
             lo == BitOr(BitAnd(Shr(cp, 0), \h3FF), SURROGATE_LOW_START)
         IN  EncResult(2,
                       Put(Put(dest, d, IF swap THEN __byte_swap_16(hi) ELSE hi),
                           d + 1, IF swap THEN __byte_swap_16(lo) ELSE lo),
                       2)
    ELSE EncResult(1, Put(dest, d, 0), 1)

__utf32_from_codepoint(codepoint, dest, d, dest_size, swap) ==
    LET result == codepoint
    IN  EncResult(1, Put(dest, d, IF swap THEN __byte_swap_32(result) ELSE result), 1)

\* A decoder's result: the codepoint, the units reported consumed, and rd,
\* the number of units from src + p on that it read.
DecResult(codepoint, consumed, rd) == [codepoint |-> codepoint, consumed |-> consumed, rd |-> rd]

\* src + p is the source pointer, src_size the units left from it.
\* __codepoint_from_utf8 without its check that the buffer holds the whole
\* sequence: the variant that reads and consumes past the end of the source.
__codepoint_from_utf8_unchecked(src, p, src_size) ==
    LET leading_char == At(src, p)
        char_count == UTF8_TRAILING_COUNT[leading_char + 1] + 1
    IN  IF char_count > UTF8_SEQ_MAX_CHARS
        THEN DecResult(UNICODE_REPL_CHAR, char_count, 1)
        ELSE LET codepoint == __utf8_decode(src, p, char_count)
             IN  IF __codepoint_is_valid(codepoint) # 0
                 THEN DecResult(UNICODE_REPL_CHAR, char_count, char_count)
                 ELSE IF __utf8_chars_for_codepoint(codepoint) # char_count
                 THEN DecResult(UNICODE_REPL_CHAR, char_count, char_count)
                 ELSE DecResult(codepoint, char_count, char_count)

\* __codepoint_from_utf8 stepping over the lead byte alone when it announces
\* more than UTF8_SEQ_MAX_CHARS units: the variant that resynchronises on the
\* next byte instead of consuming the whole illegal length.
__codepoint_from_utf8_leadonly(src, p, src_size) ==
    LET leading_char == At(src, p)
        char_count == UTF8_TRAILING_COUNT[leading_char + 1] + 1
    IN  IF src_size < char_count
        THEN DecResult(UNICODE_REPL_CHAR, src_size, 1)
        ELSE IF char_count > UTF8_SEQ_MAX_CHARS
        THEN DecResult(UNICODE_REPL_CHAR, 1, 1)
        ELSE LET codepoint == __utf8_decode(src, p, char_count)
             IN  IF __codepoint_is_valid(codepoint) # 0
                 THEN DecResult(UNICODE_REPL_CHAR, char_count, char_count)
                 ELSE IF __utf8_chars_for_codepoint(codepoint) # char_count
                 THEN DecResult(UNICODE_REPL_CHAR, char_count, char_count)
                 ELSE DecResult(codepoint, char_count, char_count)

\* __codepoint_from_utf8 reporting nothing consumed when the buffer ends inside
\* a sequence: the variant that leaves the incomplete sequence in place.
__codepoint_from_utf8_stuck(src, p, src_size) ==
    LET leading_char == At(src, p)
        char_count == UTF8_TRAILING_COUNT[leading_char + 1] + 1
    IN  IF src_size < char_count
        THEN DecResult(UNICODE_REPL_CHAR, 0, 1)
        ELSE IF char_count > UTF8_SEQ_MAX_CHARS
        THEN DecResult(UNICODE_REPL_CHAR, char_count, 1)
        ELSE LET codepoint == __utf8_decode(src, p, char_count)
             IN  IF __codepoint_is_valid(codepoint) # 0
                 THEN DecResult(UNICODE_REPL_CHAR, char_count, char_count)
                 ELSE IF __utf8_chars_for_codepoint(codepoint) # char_count
                 THEN DecResult(UNICODE_REPL_CHAR, char_count, char_count)
                 ELSE DecResult(codepoint, char_count, char_count)

__codepoint_from_utf8(src, p, src_size) ==
    LET leading_char == At(src, p)
        char_count == UTF8_TRAILING_COUNT[leading_char + 1] + 1
    IN  IF src_size < char_count
        THEN DecResult(UNICODE_REPL_CHAR, src_size, 1)
        ELSE IF char_count > UTF8_SEQ_MAX_CHARS
        THEN DecResult(UNICODE_REPL_CHAR, char_count, 1)
        ELSE LET codepoint == __utf8_decode(src, p, char_count)
             IN  IF __codepoint_is_valid(codepoint) # 0
                 THEN DecResult(UNICODE_REPL_CHAR, char_count, char_count)
                 ELSE IF __utf8_chars_for_codepoint(codepoint) # char_count
                 THEN DecResult(UNICODE_REPL_CHAR, char_count, char_count)
                 ELSE DecResult(codepoint, char_count, char_count)

\* __codepoint_from_utf16 swapping only the leading unit: the trailing unit
\* is taken as stored.
__codepoint_from_utf16_rawtrailing(src, p, src_size, swap) ==
    LET leading_char == IF swap THEN __byte_swap_16(At(src, p)) ELSE At(src, p)
    IN  IF SURROGATE_HIGH_START <= leading_char /\ leading_char <= SURROGATE_HIGH_END
        THEN IF src_size < 2
             THEN DecResult(UNICODE_REPL_CHAR, 1, 1)
             ELSE LET trailing_char == At(src, p + 1)
                  IN  IF trailing_char <= SURROGATE_LOW_START
                         \/ SURROGATE_LOW_END <= trailing_char
                      THEN DecResult(UNICODE_REPL_CHAR, 1, 2)
                      ELSE LET codepoint == __utf16_decode(leading_char, trailing_char)
                           IN  IF __codepoint_is_valid(codepoint) # 0
                               THEN DecResult(UNICODE_REPL_CHAR, 2, 2)
                               ELSE DecResult(codepoint, 2, 2)
        ELSE IF SURROGATE_LOW_START <= leading_char /\ leading_char <= SURROGATE_LOW_END
        THEN DecResult(UNICODE_REPL_CHAR, 1, 1)
        ELSE DecResult(leading_char, 1, 1)

__codepoint_from_utf16(src, p, src_size, swap) ==
    LET leading_char == IF swap THEN __byte_swap_16(At(src, p)) ELSE At(src, p)
    IN  IF SURROGATE_HIGH_START <= leading_char /\ leading_char <= SURROGATE_HIGH_END
        THEN IF src_size < 2
             THEN DecResult(UNICODE_REPL_CHAR, 1, 1)
             ELSE LET trailing_char ==
                          IF swap THEN __byte_swap_16(At(src, p + 1)) ELSE At(src, p + 1)
                  IN  IF trailing_char <= SURROGATE_LOW_START
                         \/ SURROGATE_LOW_END <= trailing_char
                      THEN DecResult(UNICODE_REPL_CHAR, 1, 2)
                      ELSE LET codepoint == __utf16_decode(leading_char, trailing_char)
                           IN  IF __codepoint_is_valid(codepoint) # 0
                               THEN DecResult(UNICODE_REPL_CHAR, 2, 2)
                               ELSE DecResult(codepoint, 2, 2)
        ELSE IF SURROGATE_LOW_START <= leading_char /\ leading_char <= SURROGATE_LOW_END
        THEN DecResult(UNICODE_REPL_CHAR, 1, 1)
        ELSE DecResult(leading_char, 1, 1)

__codepoint_from_utf32(src, p, src_size, swap) ==
    LET codepoint == IF swap THEN __byte_swap_32(At(src, p)) ELSE At(src, p)
    IN  IF __codepoint_is_valid(codepoint) # 0
        THEN DecResult(UNICODE_REPL_CHAR, 1, 1)
        ELSE DecResult(codepoint, 1, 1)

(***************************************************************************)
(* The transcoders: UTFCONV(X, Y)                                          *)
(***************************************************************************)

\* __codepoint_from_utf ## X and __utf ## Y ## _from_codepoint
codepoint_from_utf(X, src, p, src_size, swap) ==
    IF X = 8 THEN __codepoint_from_utf8(src, p, src_size)
    ELSE IF X = 16 THEN __codepoint_from_utf16(src, p, src_size, swap)
    ELSE __codepoint_from_utf32(src, p, src_size, swap)

utf_from_codepoint(Y, codepoint, dest, d, dest_size, swap) ==
    IF Y = 8 THEN __utf8_from_codepoint(codepoint, dest, d, dest_size)
    ELSE IF Y = 16 THEN __utf16_from_codepoint(codepoint, dest, d, dest_size, swap)
    ELSE __utf32_from_codepoint(codepoint, dest, d, dest_size, swap)

\* The state of a running UTFCONV: the destination buffer, dest - dest_ptr
\* (d) and src - src_ptr (s), whether the loop was left by its break, the
\* read and write marks (the number of leading units of the source and of
\* the destination touched so far) and the log of the iterations.
ConvState(dest, d, s, brk, rd_hi, wr_hi, log) ==
    [dest |-> dest, d |-> d, s |-> s, brk |-> brk, rd_hi |-> rd_hi, wr_hi |-> wr_hi, log |-> log]

\* while ((dest < dest_end) && (src < src_end)): dest_end - dest_ptr is the
\* capacity, the length of the destination buffer.
UTFCONV_cond(st, src_size) == ~st.brk /\ st.d < Len(st.dest) /\ st.s < src_size

\* One iteration of the loop body.
UTFCONV_body(X, Y, src, src_size, swap, st) ==
    LET dec == codepoint_from_utf(X, src, st.s, src_size - st.s, swap)
        enc == utf_from_codepoint(Y, dec.codepoint, st.dest, st.d, Len(st.dest) - st.d, swap)
        rd_hi == Max(st.rd_hi, st.s + dec.rd)
        wr_hi == Max(st.wr_hi, st.d + enc.wr)
        entry == [s |-> st.s, consumed |-> dec.consumed, codepoint |-> dec.codepoint,
                  d |-> st.d, produced |-> enc.n]
    IN  IF dec.codepoint = 0
        THEN ConvState(enc.dest, st.d, st.s, TRUE, rd_hi, wr_hi, Append(st.log, entry))
        ELSE ConvState(enc.dest, st.d + enc.n, st.s + dec.consumed, FALSE, rd_hi, wr_hi,
                       Append(st.log, entry))

\* The whole loop, from st on.
RECURSIVE UTFCONV_run(_, _, _, _, _, _)
UTFCONV_run(X, Y, src, src_size, swap, st) ==
    IF UTFCONV_cond(st, src_size)
    THEN UTFCONV_run(X, Y, src, src_size, swap, UTFCONV_body(X, Y, src, src_size, swap, st))
    ELSE st

\* A whole call: (*dest_size) = dest - dest_ptr is field d of the result and
\* the return value src - src_ptr its field s.
UTFCONV(X, Y, dest, src, src_size, swap) ==
    UTFCONV_run(X, Y, src, src_size, swap, ConvState(dest, 0, 0, FALSE, 0, 0, << >>))

(***************************************************************************)
(* The functions on zero-terminated strings.  Each result holds the value  *)
(* returned (ret) and the read mark (rd): the number of leading units of   *)
(* the buffer the call touched.  In each loop c is the unit last read and  *)
(* i the offset of str from the start of the buffer.                       *)
(***************************************************************************)

StrResult(ret, rd) == [ret |-> ret, rd |-> rd]

\* for (utf8_char_t c = (*str); c; c = (*str++)) { ... }
RECURSIVE utf8_in_utf16_len_loop(_, _, _, _, _)
utf8_in_utf16_len_loop(str, c, i, length, rd) ==
    IF c = 0 THEN StrResult(length, rd)
    ELSE LET trailing_chars == UTF8_TRAILING_COUNT[c + 1]
             j == i + trailing_chars
         IN  utf8_in_utf16_len_loop(str, At(str, j), j + 1,
                                    length + (IF trailing_chars = 3 THEN 2 ELSE 1),
                                    Max(rd, j + 1))

utf8_in_utf16_len(str, swap) == utf8_in_utf16_len_loop(str, At(str, 0), 0, 0, 1)

RECURSIVE utf8_in_utf32_len_loop(_, _, _, _, _)
utf8_in_utf32_len_loop(str, c, i, length, rd) ==
    IF c = 0 THEN StrResult(length, rd)
    ELSE LET trailing_chars == UTF8_TRAILING_COUNT[c + 1]
             j == i + trailing_chars
         IN  utf8_in_utf32_len_loop(str, At(str, j), j + 1, length + 1, Max(rd, j + 1))

utf8_in_utf32_len(str, swap) == utf8_in_utf32_len_loop(str, At(str, 0), 0, 0, 1)

\* The loop tests the unit as read; the body works on the swapped unit.
RECURSIVE utf16_in_utf8_len_loop(_, _, _, _, _, _)
utf16_in_utf8_len_loop(str, swap, c0, i, length, rd) ==
    IF c0 = 0 THEN StrResult(length, rd)
    ELSE LET c == IF swap THEN __byte_swap_16(c0) ELSE c0
             high == SURROGATE_HIGH_START <= c /\ c <= SURROGATE_HIGH_END
             j == IF high THEN i + 1 ELSE i
         IN  utf16_in_utf8_len_loop(str, swap, At(str, j), j + 1,
                                    length + (IF high THEN 4 ELSE __utf8_chars_for_codepoint(c)),
                                    Max(rd, j + 1))

utf16_in_utf8_len(str, swap) == utf16_in_utf8_len_loop(str, swap, At(str, 0), 0, 0, 1)

RECURSIVE utf16_in_utf32_len_loop(_, _, _, _, _, _)
utf16_in_utf32_len_loop(str, swap, c0, i, length, rd) ==
    IF c0 = 0 THEN StrResult(length, rd)
    ELSE LET c == IF swap THEN __byte_swap_16(c0) ELSE c0
             high == SURROGATE_HIGH_START <= c /\ c <= SURROGATE_HIGH_END
             j == IF high THEN i + 1 ELSE i
         IN  utf16_in_utf32_len_loop(str, swap, At(str, j), j + 1, length + 1, Max(rd, j + 1))

utf16_in_utf32_len(str, swap) == utf16_in_utf32_len_loop(str, swap, At(str, 0), 0, 0, 1)

RECURSIVE utf32_in_utf8_len_loop(_, _, _, _, _, _)
utf32_in_utf8_len_loop(str, swap, c0, i, length, rd) ==
    IF c0 = 0 THEN StrResult(length, rd)
    ELSE LET c == IF swap THEN __byte_swap_32(c0) ELSE c0
         IN  utf32_in_utf8_len_loop(str, swap, At(str, i), i + 1,
                                    length + __utf8_chars_for_codepoint(c), Max(rd, i + 1))

utf32_in_utf8_len(str, swap) == utf32_in_utf8_len_loop(str, swap, At(str, 0), 0, 0, 1)

RECURSIVE utf32_in_utf16_len_loop(_, _, _, _, _, _)
utf32_in_utf16_len_loop(str, swap, c0, i, length, rd) ==
    IF c0 = 0 THEN StrResult(length, rd)
    ELSE LET c == IF swap THEN __byte_swap_32(c0) ELSE c0
         IN  utf32_in_utf16_len_loop(str, swap, At(str, i), i + 1,
                                     length + (IF Lt32(UTF16_ONE_CHAR_LIMIT, c) THEN 2 ELSE 1),
                                     Max(rd, i + 1))

utf32_in_utf16_len(str, swap) == utf32_in_utf16_len_loop(str, swap, At(str, 0), 0, 0, 1)

\* utf ## X ## _in_utf ## Y ## _len
utf_in_utf_len(X, Y, str, swap) ==
    IF X = 8 THEN (IF Y = 16 THEN utf8_in_utf16_len(str, swap) ELSE utf8_in_utf32_len(str, swap))
    ELSE IF X = 16 THEN (IF Y = 8 THEN utf16_in_utf8_len(str, swap) ELSE utf16_in_utf32_len(str, swap))
    ELSE (IF Y = 8 THEN utf32_in_utf8_len(str, swap) ELSE utf32_in_utf16_len(str, swap))

\* The inner loop of utf8_validate over j = from .. char_count - 1: 0 if every
\* trailing char is marked 10xxxxxx, else the offset j of the first that is not.
RECURSIVE Utf8BadTrailing(_, _, _, _)
Utf8BadTrailing(str, i, j, char_count) ==
    IF j >= char_count THEN 0
    ELSE LET b == At(str, i + j)
         IN  IF b = 0 \/ Shr(b, 7) = 0 \/ BitAnd(Shr(b, 6), 1) # 0
             THEN j
             ELSE Utf8BadTrailing(str, i, j + 1, char_count)

\* utf8_validate's loop without its comparison of the sequence length with
\* the minimal length of the codepoint: the variant that accepts overlong forms.
RECURSIVE utf8_validate_loop_overlong(_, _, _)
utf8_validate_loop_overlong(str, i, rd) ==
    LET c == At(str, i)
        char_count == UTF8_TRAILING_COUNT[c + 1] + 1
        bad == Utf8BadTrailing(str, i, 1, char_count)
        codepoint == __utf8_decode(str, i, char_count)
        validity_result == __codepoint_is_valid(codepoint)
    IN  IF c = 0 THEN StrResult(0, Max(rd, i + 1))
        ELSE IF char_count > UTF8_SEQ_MAX_CHARS THEN StrResult(6, Max(rd, i + 1))
        ELSE IF bad # 0 THEN StrResult(4, Max(rd, i + bad + 1))
        ELSE IF validity_result # 0 THEN StrResult(validity_result, Max(rd, i + char_count))
        ELSE utf8_validate_loop_overlong(str, i + char_count, Max(rd, i + char_count))

\* utf8_validate's loop without its inner loop over the trailing chars: the
\* variant that, like the decoder, sums the bytes whatever their marks.
RECURSIVE utf8_validate_loop_unmarked(_, _, _)
utf8_validate_loop_unmarked(str, i, rd) ==
    LET c == At(str, i)
        char_count == UTF8_TRAILING_COUNT[c + 1] + 1
        codepoint == __utf8_decode(str, i, char_count)
        validity_result == __codepoint_is_valid(codepoint)
    IN  IF c = 0 THEN StrResult(0, Max(rd, i + 1))
        ELSE IF char_count > UTF8_SEQ_MAX_CHARS THEN StrResult(6, Max(rd, i + 1))
        ELSE IF validity_result # 0 THEN StrResult(validity_result, Max(rd, i + char_count))
        ELSE IF char_count # __utf8_chars_for_codepoint(codepoint)
        THEN StrResult(6, Max(rd, i + char_count))
        ELSE utf8_validate_loop_unmarked(str, i + char_count, Max(rd, i + char_count))

\* for (utf8_char_t c = (*str); c; c = (*str)) { ... str += char_count; }
RECURSIVE utf8_validate_loop(_, _, _)
utf8_validate_loop(str, i, rd) ==
    LET c == At(str, i)
        char_count == UTF8_TRAILING_COUNT[c + 1] + 1
        bad == Utf8BadTrailing(str, i, 1, char_count)
        codepoint == __utf8_decode(str, i, char_count)
        validity_result == __codepoint_is_valid(codepoint)
    IN  IF c = 0 THEN StrResult(0, Max(rd, i + 1))
        ELSE IF char_count > UTF8_SEQ_MAX_CHARS THEN StrResult(6, Max(rd, i + 1))
        ELSE IF bad # 0 THEN StrResult(4, Max(rd, i + bad + 1))
        ELSE IF validity_result # 0 THEN StrResult(validity_result, Max(rd, i + char_count))
        ELSE IF char_count # __utf8_chars_for_codepoint(codepoint)
        THEN StrResult(6, Max(rd, i + char_count))
        ELSE utf8_validate_loop(str, i + char_count, Max(rd, i + char_count))

utf8_validate(str, swap) == utf8_validate_loop(str, 0, 0)

\* utf16_validate's loop without its test that the unit after a high
\* surrogate is a low surrogate.
RECURSIVE utf16_validate_loop_anynext(_, _, _, _, _)
utf16_validate_loop_anynext(str, swap, c0, i, rd) ==
    IF c0 = 0 THEN StrResult(0, rd)
    ELSE LET c == IF swap THEN __byte_swap_16(c0) ELSE c0
         IN  IF SURROGATE_HIGH_START <= c /\ c <= SURROGATE_HIGH_END
             THEN LET next_char == At(str, i)
                      rd1 == Max(rd, i + 1)
                      codepoint == __utf16_decode(c, next_char)
                      validity_result == __codepoint_is_valid(codepoint)
                  IN  IF next_char = 0 THEN StrResult(1, rd1)
                      ELSE IF validity_result # 0 THEN StrResult(validity_result, rd1)
                      ELSE utf16_validate_loop_anynext(str, swap, At(str, i + 1), i + 2,
                                                       Max(rd1, i + 2))
             ELSE LET validity_result == __codepoint_is_valid(c)
                  IN  IF validity_result # 0 THEN StrResult(validity_result, rd)
                      ELSE utf16_validate_loop_anynext(str, swap, At(str, i), i + 1,
                                                       Max(rd, i + 1))

\* for (utf16_char_t c = (*str); c; c = (*str++)) { ... }
RECURSIVE utf16_validate_loop(_, _, _, _, _)
utf16_validate_loop(str, swap, c0, i, rd) ==
    IF c0 = 0 THEN StrResult(0, rd)
    ELSE LET c == IF swap THEN __byte_swap_16(c0) ELSE c0
         IN  IF SURROGATE_HIGH_START <= c /\ c <= SURROGATE_HIGH_END
             THEN LET next_char == At(str, i)
                      rd1 == Max(rd, i + 1)
                      codepoint == __utf16_decode(c, next_char)
                      validity_result == __codepoint_is_valid(codepoint)
                  IN  IF next_char = 0 THEN StrResult(1, rd1)
                      ELSE IF next_char < SURROGATE_LOW_START \/ SURROGATE_LOW_END < next_char
                      THEN StrResult(1, rd1)
                      ELSE IF validity_result # 0 THEN StrResult(validity_result, rd1)
                      ELSE utf16_validate_loop(str, swap, At(str, i + 1), i + 2, Max(rd1, i + 2))
             ELSE LET validity_result == __codepoint_is_valid(c)
                  IN  IF validity_result # 0 THEN StrResult(validity_result, rd)
                      ELSE utf16_validate_loop(str, swap, At(str, i), i + 1, Max(rd, i + 1))

utf16_validate(str, swap) == utf16_validate_loop(str, swap, At(str, 0), 0, 1)

RECURSIVE utf32_validate_loop(_, _, _, _, _)
utf32_validate_loop(str, swap, c0, i, rd) ==
    IF c0 = 0 THEN StrResult(0, rd)
    ELSE LET c == IF swap THEN __byte_swap_32(c0) ELSE c0
             validity_result == __codepoint_is_valid(c)
         IN  IF validity_result # 0 THEN StrResult(validity_result, rd)
             ELSE utf32_validate_loop(str, swap, At(str, i), i + 1, Max(rd, i + 1))

utf32_validate(str, swap) == utf32_validate_loop(str, swap, At(str, 0), 0, 1)

\* utf ## X ## _validate
utf_validate(X, str, swap) ==
    IF X = 8 THEN utf8_validate(str, swap)
    ELSE IF X = 16 THEN utf16_validate(str, swap)
    ELSE utf32_validate(str, swap)

\* STRLEN stepping over the unit after a high surrogate: the variant that
\* counts a surrogate pair as one.
RECURSIVE STRLEN_codepoints(_, _)
STRLEN_codepoints(str, i) ==
    IF At(str, i) = 0 THEN StrResult(i, i + 1)
    ELSE IF SURROGATE_HIGH_START <= At(str, i) /\ At(str, i) <= SURROGATE_HIGH_END
            /\ At(str, i + 1) # 0
    THEN LET r == STRLEN_codepoints(str, i + 2) IN StrResult(r.ret - 1, r.rd)
    ELSE STRLEN_codepoints(str, i + 1)

\* for ( ; (*s); s++) ; return (s - str);
RECURSIVE STRLEN(_, _)
STRLEN(str, i) == IF At(str, i) = 0 THEN StrResult(i, i + 1) ELSE STRLEN(str, i + 1)

strlen_utf8(str) == STRLEN(str, 0)

strlen_utf16(str) == STRLEN(str, 0)

strlen_utf32(str) == STRLEN(str, 0)

\* strlen_utf ## X
strlen_utf(X, str) ==
    IF X = 8 THEN strlen_utf8(str) ELSE IF X = 16 THEN strlen_utf16(str) ELSE strlen_utf32(str)

(***************************************************************************)
(* Inputs.  A source buffer is a concatenation of at most MaxChunks pieces *)
(* drawn from a list, per encoding, of well-formed sequences of every      *)
(* length, malformed ones and single units that combine into further       *)
(* malformed sequences.                                                    *)
(***************************************************************************)

MaxChunks == 2

MaxStrChunks == 3

MaxCap == 4

Chunks8 ==
    { << \h00 >>, << \h2F >>, << \hC2, \hA2 >>, << \hE2, \h82, \hAC >>,
      << \hF0, \h90, \h80, \h80 >>,
      << \hC0, \h80 >>, << \hE0, \h80, \hAF >>, << \hF0, \h80, \h80, \h80 >>,
      << \hED, \hA1, \h8C >>, << \hF4, \h90, \h80, \h80 >>,
      << \h80 >>, << \hC2 >>, << \hF8, \h88, \h80, \h80, \h80 >>,
      << \hED, \hBE, \hB4 >>, << \h2F, \hC0, \hAE, \h2E, \h2F >>,
      << \hE2, \h82 >>, << \hF0, \h90 >> }

Chunks16 ==
    { << \h0000 >>, << \h0041 >>, << \h20AC >>, << \hD83D, \hDE01 >>,
      << \hD800 >>, << \hDBFF >>, << \hDC00 >>, << \hDFFF >>,
      << \h00D8 >>, << \h3DD8, \h01DE >> }

Chunks32 ==
    { << \h0 >>, << \h41 >>, << \h20AC >>, << \h10000 >>, << \h1F601 >>,
      << \hD800 >>, << \h110000 >>, << W32(\hFFFF, \hFFFF) >>,
      << \h100 >>, << W32(\h4100, \h0000) >>, << \hDFFF >>, << \h10FFFF >> }

Chunks(X) == IF X = 8 THEN Chunks8 ELSE IF X = 16 THEN Chunks16 ELSE Chunks32

\* Further UTF-32 sources for the transcoders: the codepoints on either side
\* of each UTF-8 length threshold.
Thresholds32 == { << \h7F >>, << \h80 >>, << \h7FF >>, << \h800 >>, << \hFFFF >> }

\* Pieces that stand for a kind of sequence another piece already gives the
\* transcoders; they are inputs of the string routines only.
StringsOnly ==
    { << \hE0, \h80, \hAF >>, << \hF0, \h80, \h80, \h80 >>, << \hED, \hBE, \hB4 >>,
      << \h2F, \hC0, \hAE, \h2E, \h2F >>, << \h100 >>, << \hDFFF >>, << \h1F601 >> }

\* The pieces of a transcoder's source.
Sources(X) ==
    IF X = 8 THEN Chunks8 \ StringsOnly
    ELSE IF X = 16 THEN Chunks16
    ELSE (Chunks32 \ StringsOnly) \cup Thresholds32

\* The concatenations of at most n of the chunks.
RECURSIVE Concats(_, _)
Concats(chunks, n) ==
    IF n = 0 THEN { << >> }
    ELSE LET shorter == Concats(chunks, n - 1)
         IN  shorter \cup { s \o c : s \in shorter, c \in chunks }

\* What a destination buffer holds before a call.
FILL == \h55

Filled(k) == [i \in 1 .. k |-> FILL]

Encodings == { 8, 16, 32 }

(***************************************************************************)
(* State                                                                   *)
(***************************************************************************)

VARIABLES
    pc,         \* "idle", "loop" (inside UTFCONV), "done" (the call returned)
    fn,         \* the entry point called
    X,          \* the encoding of the source
    Y,          \* the encoding of the destination
    src,        \* the source buffer
    src_size,   \* the source length passed
    swap,       \* the swap flag passed
    dest_size,  \* the cell *dest_size: the capacity, then the units produced
    conv,       \* the state of the UTFCONV loop
    ret,        \* the value returned
    rd,         \* the read mark of a call on a zero-terminated string
    orig        \* during the reverse conversion, the forward call (else empty)

vars == << pc, fn, X, Y, src, src_size, swap, dest_size, conv, ret, rd, orig >>

Init ==
    /\ pc = "idle"
    /\ fn = "none"
    /\ X = 8
    /\ Y = 8
    /\ src = << >>
    /\ src_size = 0
    /\ swap = FALSE
    /\ dest_size = 0
    /\ conv = ConvState(<< >>, 0, 0, FALSE, 0, 0, << >>)
    /\ ret = 0
    /\ rd = 0
    /\ orig = << >>

(***************************************************************************)
(* The transcoders                                                         *)
(***************************************************************************)

\* The entry of enc_utf ## X ## _to_utf ## Y (dest, dest_size, src, src_size, swap).
Enter(x, y) ==
    /\ \E s \in Concats(Sources(x), MaxChunks), k \in 0 .. MaxCap, sw \in BOOLEAN :
          /\ src' = s
          /\ src_size' = Len(s)
          /\ swap' = sw
          /\ dest_size' = k
          /\ conv' = ConvState(Filled(k), 0, 0, FALSE, 0, 0, << >>)
    /\ pc' = "loop"
    /\ fn' = "enc"
    /\ X' = x
    /\ Y' = y
    /\ UNCHANGED << ret, rd, orig >>

enc_utf8_to_utf16 ==
    /\ pc = "idle"
    /\ Enter(8, 16)

enc_utf8_to_utf32 ==
    /\ pc = "idle"
    /\ Enter(8, 32)

enc_utf16_to_utf8 ==
    /\ pc = "idle"
    /\ Enter(16, 8)

enc_utf16_to_utf32 ==
    /\ pc = "idle"
    /\ Enter(16, 32)

enc_utf32_to_utf16 ==
    /\ pc = "idle"
    /\ Enter(32, 16)

enc_utf32_to_utf8 ==
    /\ pc = "idle"
    /\ Enter(32, 8)

\* One iteration of the while loop.
UTFCONV_loop ==
    /\ pc = "loop"
    /\ UTFCONV_cond(conv, src_size)
    /\ conv' = UTFCONV_body(X, Y, src, src_size, swap, conv)
    /\ UNCHANGED << pc, fn, X, Y, src, src_size, swap, dest_size, ret, rd, orig >>

\* (*dest_size) = (dest - dest_ptr); return (src - src_ptr);
UTFCONV_return ==
    /\ pc = "loop"
    /\ ~UTFCONV_cond(conv, src_size)
    /\ dest_size' = conv.d
    /\ ret' = conv.s
    /\ pc' = "done"
    /\ UNCHANGED << fn, X, Y, src, src_size, swap, conv, rd, orig >>

\* The reverse conversion of TEST_X_TO_Y: the units the forward conversion
\* produced are converted back, here into a buffer of four units per source
\* unit, which no conversion can exhaust.
Reverse ==
    /\ pc = "done"
    /\ fn = "enc"
    /\ orig = << >>
    /\ orig' = << [X |-> X, src |-> src, src_size |-> src_size, cap |-> Len(conv.dest),
                ret |-> ret, dest_size |-> dest_size] >>
    /\ X' = Y
    /\ Y' = X
    /\ src' = SubSeq(conv.dest, 1, dest_size)
    /\ src_size' = dest_size
    /\ dest_size' = 4 * dest_size
    /\ conv' = ConvState(Filled(4 * dest_size), 0, 0, FALSE, 0, 0, << >>)
    /\ pc' = "loop"
    /\ UNCHANGED << fn, swap, ret, rd >>

Next ==
    \/ enc_utf8_to_utf16
    \/ enc_utf8_to_utf32
    \/ enc_utf16_to_utf8
    \/ enc_utf16_to_utf32
    \/ enc_utf32_to_utf16
    \/ enc_utf32_to_utf8
    \/ UTFCONV_loop
    \/ UTFCONV_return
    \/ Reverse

Spec == Init /\ [][Next]_vars

\* UTFCONV_loop can be taken: the call is at its while and the condition
\* holds (an iteration always changes conv, whose log it extends).
UTFCONV_loop_enabled == pc = "loop" /\ UTFCONV_cond(conv, src_size)

\* A call runs on one thread and nothing suspends it: while the loop condition
\* holds the next iteration is executed, and once it fails the two closing
\* statements are. This is weak fairness of UTFCONV_loop, with its enabling
\* condition written out, and of UTFCONV_return.
SpecFair ==
    /\ Spec
    /\ ([]<>(~UTFCONV_loop_enabled) \/ []<><<UTFCONV_loop>>_vars)
    /\ WF_vars(UTFCONV_return)

(***************************************************************************)
(* The calls on zero-terminated strings.  The buffer is a concatenation of *)
(* chunks followed by a zero unit; a zero chunk inside it ends the string  *)
(* early and leaves what follows as the buffer's contents past the         *)
(* terminator.                                                             *)
(***************************************************************************)

CallStr(name, x, y, r) ==
    /\ pc' = "done"
    /\ fn' = name
    /\ X' = x
    /\ Y' = y
    /\ ret' = r.ret
    /\ rd' = r.rd
    /\ src_size' = STRLEN(src', 0).ret
    /\ UNCHANGED << dest_size, conv, orig >>

Strings(x) == { s \o << 0 >> : s \in Concats(Chunks(x), MaxStrChunks) }

Validate(x) ==
    /\ \E s \in Strings(x), sw \in BOOLEAN :
          /\ src' = s
          /\ swap' = sw
          /\ CallStr("validate", x, x, utf_validate(x, s, sw))

call_utf8_validate ==
    /\ pc = "idle"
    /\ Validate(8)

call_utf16_validate ==
    /\ pc = "idle"
    /\ Validate(16)

call_utf32_validate ==
    /\ pc = "idle"
    /\ Validate(32)

InLen(x, y) ==
    /\ \E s \in Strings(x), sw \in BOOLEAN :
          /\ src' = s
          /\ swap' = sw
          /\ CallStr("len", x, y, utf_in_utf_len(x, y, s, sw))

call_utf8_in_utf16_len ==
    /\ pc = "idle"
    /\ InLen(8, 16)

call_utf8_in_utf32_len ==
    /\ pc = "idle"
    /\ InLen(8, 32)

call_utf16_in_utf8_len ==
    /\ pc = "idle"
    /\ InLen(16, 8)

call_utf16_in_utf32_len ==
    /\ pc = "idle"
    /\ InLen(16, 32)

call_utf32_in_utf8_len ==
    /\ pc = "idle"
    /\ InLen(32, 8)

call_utf32_in_utf16_len ==
    /\ pc = "idle"
    /\ InLen(32, 16)

Strlen(x) ==
    /\ \E s \in Strings(x) :
          /\ src' = s
          /\ swap' = FALSE
          /\ CallStr("strlen", x, x, strlen_utf(x, s))

call_strlen_utf8 ==
    /\ pc = "idle"
    /\ Strlen(8)

call_strlen_utf16 ==
    /\ pc = "idle"
    /\ Strlen(16)

call_strlen_utf32 ==
    /\ pc = "idle"
    /\ Strlen(32)

NextStr ==
    \/ call_utf8_validate
    \/ call_utf16_validate
    \/ call_utf32_validate
    \/ call_utf8_in_utf16_len
    \/ call_utf8_in_utf32_len
    \/ call_utf16_in_utf8_len
    \/ call_utf16_in_utf32_len
    \/ call_utf32_in_utf8_len
    \/ call_utf32_in_utf16_len
    \/ call_strlen_utf8
    \/ call_strlen_utf16
    \/ call_strlen_utf32

SpecStr == Init /\ [][NextStr]_vars

(***************************************************************************)
(* The Unicode Standard's definitions, against which the properties below  *)
(* are stated.  They are written from the standard (well-formed sequences, *)
(* payload bits), not from the library's arithmetic.  Positions here are   *)
(* 1-based indices into a sequence of native-order units.                  *)
(***************************************************************************)

IsScalar(v) == (0 <= v /\ v <= \hD7FF) \/ (\hE000 <= v /\ v <= \h10FFFF)

IsHighSurrogate(u) == \hD800 <= u /\ u <= \hDBFF

IsLowSurrogate(u) == \hDC00 <= u /\ u <= \hDFFF

IsCont(b) == \h80 <= b /\ b <= \hBF

Between(b, lo, hi) == lo <= b /\ b <= hi

\* The unit k places after position p, or 0 (no continuation byte, no
\* surrogate) past the end.
Unit(s, p, k) == IF p + k <= Len(s) THEN s[p + k] ELSE 0

\* The length of the well-formed UTF-8 sequence at p (Unicode table 3-7), or 0.
WfLen8(s, p) ==
    LET b0 == s[p]
        b1 == Unit(s, p, 1)
        b2 == Unit(s, p, 2)
        b3 == Unit(s, p, 3)
    IN  IF b0 <= \h7F THEN 1
        ELSE IF Between(b0, \hC2, \hDF) /\ IsCont(b1) THEN 2
        ELSE IF b0 = \hE0 /\ Between(b1, \hA0, \hBF) /\ IsCont(b2) THEN 3
        ELSE IF (Between(b0, \hE1, \hEC) \/ Between(b0, \hEE, \hEF)) /\ IsCont(b1) /\ IsCont(b2)
        THEN 3
        ELSE IF b0 = \hED /\ Between(b1, \h80, \h9F) /\ IsCont(b2) THEN 3
        ELSE IF b0 = \hF0 /\ Between(b1, \h90, \hBF) /\ IsCont(b2) /\ IsCont(b3) THEN 4
        ELSE IF Between(b0, \hF1, \hF3) /\ IsCont(b1) /\ IsCont(b2) /\ IsCont(b3) THEN 4
        ELSE IF b0 = \hF4 /\ Between(b1, \h80, \h8F) /\ IsCont(b2) /\ IsCont(b3) THEN 4
        ELSE 0

WfLen16(s, p) ==
    IF IsHighSurrogate(s[p]) THEN (IF IsLowSurrogate(Unit(s, p, 1)) THEN 2 ELSE 0)
    ELSE IF IsLowSurrogate(s[p]) THEN 0
    ELSE 1

WfLen32(s, p) == IF IsScalar(s[p]) THEN 1 ELSE 0

WfLen(enc, s, p) ==
    IF enc = 8 THEN WfLen8(s, p) ELSE IF enc = 16 THEN WfLen16(s, p) ELSE WfLen32(s, p)

\* The value the payload bits of an n-byte UTF-8 sequence at p spell.
Payload8(s, p, n) ==
    IF n = 1 THEN s[p]
    ELSE IF n = 2 THEN (s[p] % 32) * 64 + (s[p + 1] % 64)
    ELSE IF n = 3 THEN (s[p] % 16) * 4096 + (s[p + 1] % 64) * 64 + (s[p + 2] % 64)
    ELSE (s[p] % 8) * 262144 + (s[p + 1] % 64) * 4096 + (s[p + 2] % 64) * 64 + (s[p + 3] % 64)

\* The scalar value of the well-formed sequence of n units at p.
WfValue(enc, s, p, n) ==
    IF enc = 8 THEN Payload8(s, p, n)
    ELSE IF enc = 16 /\ n = 2 THEN \h10000 + (s[p] - \hD800) * 1024 + (s[p + 1] - \hDC00)
    ELSE s[p]

\* The least number of UTF-8 bytes that can spell v.
MinLen8(v) == IF v < \h80 THEN 1 ELSE IF v < \h800 THEN 2 ELSE IF v < \h10000 THEN 3 ELSE 4

\* The first position from p on at which no well-formed sequence starts, or 0.
RECURSIVE FirstViolation(_, _, _)
FirstViolation(enc, s, p) ==
    IF p > Len(s) THEN 0
    ELSE IF WfLen(enc, s, p) = 0 THEN p
    ELSE FirstViolation(enc, s, p + WfLen(enc, s, p))

WellFormed(enc, s) == FirstViolation(enc, s, 1) = 0

ZeroFree(s) == \A i \in 1 .. Len(s) : s[i] # 0

\* The string a zero-terminated buffer holds: its units before the first zero.
BeforeZero(buf) ==
    LET z == CHOOSE i \in 1 .. Len(buf) : buf[i] = 0 /\ \A j \in 1 .. (i - 1) : buf[j] # 0
    IN  SubSeq(buf, 1, z - 1)

\* The most destination units n source units can need.
WorstCase(from, to, n) ==
    IF from = 8 THEN n
    ELSE IF from = 16 THEN (IF to = 8 THEN 3 * n ELSE n)
    ELSE (IF to = 8 THEN 4 * n ELSE 2 * n)

\* The units a finished transcoder call reports produced.
Produced == SubSeq(conv.dest, 1, dest_size)

\* The same call, run to its end on a destination no source can exhaust.
Unlimited == UTFCONV(X, Y, Filled(WorstCase(X, Y, src_size)), src, src_size, swap)

EncDone == pc = "done" /\ fn = "enc"

(***************************************************************************)
(* C1 .. C10                                                               *)
(***************************************************************************)

\* C1: round trip.  For a well-formed, zero-free string S in X, converting
\* X -> Y with sufficient capacity and the result back Y -> X with
\* sufficient capacity reproduces exactly the units of S.
C1_RoundTrip ==
    (/\ pc = "done"
     /\ orig # << >>
     /\ ~swap
     /\ ZeroFree(orig[1].src)
     /\ WellFormed(orig[1].X, orig[1].src)
     /\ orig[1].cap >= WorstCase(orig[1].X, X, orig[1].src_size))
    => Produced = orig[1].src

\* C2: for a well-formed zero-terminated string the X -> Y length estimate
\* equals the number of units the X -> Y transcoder produces for it when the
\* capacity suffices.
C2_EstimateExact ==
    (/\ EncDone
     /\ orig = << >>
     /\ ~swap
     /\ ZeroFree(src)
     /\ WellFormed(X, src)
     /\ Len(conv.dest) >= WorstCase(X, Y, src_size))
    => utf_in_utf_len(X, Y, src \o << 0 >>, swap).ret = dest_size

\* C3: a destination sized by the length estimate is large enough: the
\* transcoder called with that capacity and the string's length consumes the
\* whole source and produces what it would produce with unlimited capacity.
C3_EstimateSuffices ==
    (/\ EncDone
     /\ orig = << >>
     /\ ~swap
     /\ ZeroFree(src)
     /\ WellFormed(X, src)
     /\ Len(conv.dest) = utf_in_utf_len(X, Y, src \o << 0 >>, swap).ret)
    => /\ ret = src_size
       /\ Produced = SubSeq(Unlimited.dest, 1, Unlimited.d)

\* Whether the decoder's result r at offset p of s is a substitution: U+FFFD
\* returned for units that do not spell U+FFFD.
Substituted(enc, s, p, r) ==
    /\ r.codepoint = \hFFFD
    /\ IF enc = 8
       THEN ~(r.consumed = 3 /\ SubSeq(s, p + 1, p + 3) = << \hEF, \hBF, \hBD >>)
       ELSE s[p + 1] # \hFFFD

\* Walking s with the decoder of the transcoders, from offset p to the end:
\* no step substitutes and every sequence has its minimal length.
RECURSIVE CleanWalk(_, _, _)
CleanWalk(enc, s, p) ==
    IF p >= Len(s) THEN TRUE
    ELSE LET r == codepoint_from_utf(enc, s, p, Len(s) - p, FALSE)
         IN  /\ ~Substituted(enc, s, p, r)
             /\ enc = 8 => r.consumed = MinLen8(r.codepoint)
             /\ CleanWalk(enc, s, p + r.consumed)

\* C4: validator/decoder agreement.  validate_X(S, swap = false) returns 0
\* exactly if walking S with the X decoder yields no replacement
\* substitution and only minimal-length sequences.
C4_ValidatorDecoderAgree ==
    (pc = "done" /\ fn = "validate" /\ ~swap)
    => ((ret = 0) <=> CleanWalk(X, BeforeZero(src), 0))

\* C5: utf16_validate(S, swap = false) returns 0 for every well-formed
\* zero-terminated UTF-16 string and non-zero for every other string.
C5_Utf16ValidateExact ==
    (pc = "done" /\ fn = "validate" /\ X = 16 /\ ~swap)
    => ((ret = 0) <=> WellFormed(16, BeforeZero(src)))

\* The source and destination offsets at which a run stands after each
\* whole codepoint it converted.
CutPoints(run) ==
    { << 0, 0 >> }
    \cup { << run.log[i].s + run.log[i].consumed, run.log[i].d + run.log[i].produced >> :
             i \in { j \in 1 .. Len(run.log) : run.log[j].codepoint # 0 } }

\* C6: truncation.  What a transcoder produces is a prefix of what the same
\* call produces with unlimited capacity, made of whole codepoints in source
\* order, and the consumed count covers exactly the codepoints written.
\* Stated for the transcoders into UTF-8, whose encoder the property names.
C6_TruncationIsPrefix ==
    (EncDone /\ Y = 8)
    => /\ << ret, dest_size >> \in CutPoints(Unlimited)
       /\ Produced = SubSeq(Unlimited.dest, 1, dest_size)

\* C7: bounds.  For every source, length, capacity and swap flag a
\* transcoder consumes at most src_size units and produces at most the
\* capacity, reads no source unit at an index >= src_size and writes no
\* destination unit at an index >= the capacity.
C7_Bounds ==
    fn = "enc"
    => /\ conv.s <= src_size
       /\ conv.d <= Len(conv.dest)
       /\ conv.rd_hi <= src_size
       /\ conv.wr_hi <= Len(conv.dest)
       /\ pc = "done" => /\ ret = conv.s
                         /\ dest_size = conv.d
                         /\ ret <= src_size
                         /\ dest_size <= Len(conv.dest)

\* A call on a malformed source under swap that ends on a truncated UTF-8
\* sequence, having read the whole source and filled the whole destination.
C7_Witness ==
    /\ EncDone
    /\ X = 8
    /\ swap
    /\ src_size >= 2
    /\ Len(conv.dest) >= 2
    /\ ret = src_size
    /\ dest_size = Len(conv.dest)
    /\ conv.rd_hi = src_size
    /\ conv.wr_hi = Len(conv.dest)
    /\ \E i \in 1 .. Len(conv.log) :
          /\ conv.log[i].s + conv.log[i].consumed = src_size
          /\ conv.log[i].consumed < UTF8_TRAILING_COUNT[src[conv.log[i].s + 1] + 1] + 1

\* C8: when the transcoder decodes a codepoint 0 it stops, the terminator is
\* neither counted nor written: the counts stand at the terminator and every
\* destination unit at an index >= the produced count keeps the value it had
\* before the call.
C8_TerminatorFrame ==
    (EncDone /\ conv.brk)
    => /\ ret = conv.log[Len(conv.log)].s
       /\ dest_size = conv.log[Len(conv.log)].d
       /\ \A i \in (dest_size + 1) .. Len(conv.dest) : conv.dest[i] = FILL

\* C9: best effort.  For a source with no zero unit and a capacity that
\* suffices, the transcoder consumes the whole source, and every codepoint it
\* hands to the encoder is a scalar value: the value of the well-formed
\* sequence at that place, or U+FFFD where no well-formed sequence starts.
C9_BestEffort ==
    (/\ EncDone
     /\ ~swap
     /\ ZeroFree(src)
     /\ Len(conv.dest) >= WorstCase(X, Y, src_size))
    => /\ ret = src_size
       /\ \A i \in 1 .. Len(conv.log) :
             LET e == conv.log[i]
                 n == WfLen(X, src, e.s + 1)
             IN  /\ IsScalar(e.codepoint)
                 /\ IF n > 0
                    THEN e.codepoint = WfValue(X, src, e.s + 1, n) /\ e.consumed = n
                    ELSE e.codepoint = \hFFFD

\* A lead byte announcing more than 4 units.
TooLong8(s, p) == s[p] >= \hF8

\* The units announced by a lead byte of a 2..4 byte sequence, else 0.
Announced8(b) ==
    IF Between(b, \hC0, \hDF) THEN 2
    ELSE IF Between(b, \hE0, \hEF) THEN 3
    ELSE IF Between(b, \hF0, \hF7) THEN 4
    ELSE 0

\* An overlong sequence at p: 2..4 bytes with correctly marked continuation
\* bytes that spell a scalar value which fewer bytes can spell.
Overlong8(s, p) ==
    LET n == Announced8(s[p])
    IN  /\ n >= 2
        /\ p + n - 1 <= Len(s)
        /\ \A k \in 1 .. (n - 1) : IsCont(s[p + k])
        /\ IsScalar(Payload8(s, p, n))
        /\ MinLen8(Payload8(s, p, n)) < n

\* C10: utf8_validate returns 6 whenever the first violation of the string
\* is an overlong sequence or a lead byte announcing more than 4 units, and
\* never returns 0 for a string that contains such a sequence.
C10_OverlongRejected ==
    (pc = "done" /\ fn = "validate" /\ X = 8)
    => LET s == BeforeZero(src)
           v == FirstViolation(8, s, 1)
       IN  /\ (v > 0 /\ (TooLong8(s, v) \/ Overlong8(s, v))) => ret = 6
           /\ (\E p \in 1 .. Len(s) : TooLong8(s, p) \/ Overlong8(s, p)) => ret # 0

\* A string whose first violation is a 4-byte overlong sequence that follows
\* a well-formed multi-byte sequence, rejected with 6.
C10_Witness ==
    /\ pc = "done"
    /\ fn = "validate"
    /\ X = 8
    /\ ret = 6
    /\ LET s == BeforeZero(src)
           v == FirstViolation(8, s, 1)
       IN  v > 2 /\ WfLen8(s, 1) >= 2 /\ Overlong8(s, v) /\ Announced8(s[v]) = 4

\* A surrogate encoded in UTF-8 at p: a 3-byte sequence with correctly marked
\* continuation bytes whose payload is in 0xD800 .. 0xDFFF.
Surrogate8(s, p) ==
    /\ Announced8(s[p]) = 3
    /\ p + 2 <= Len(s)
    /\ IsCont(s[p + 1])
    /\ IsCont(s[p + 2])
    /\ Between(Payload8(s, p, 3), \hD800, \hDFFF)

\* C11: utf8_validate returns 2 for every string whose first violation is a
\* surrogate encoded as a 3-byte sequence with correctly marked continuation
\* bytes, and never returns 0 for a string that contains an encoded surrogate.
C11_SurrogateRejected ==
    (pc = "done" /\ fn = "validate" /\ X = 8)
    => LET s == BeforeZero(src)
           v == FirstViolation(8, s, 1)
       IN  /\ (v > 0 /\ Surrogate8(s, v)) => ret = 2
           /\ (\E p \in 1 .. Len(s) : Surrogate8(s, p)) => ret # 0

\* ED A1 8C followed by ED BE B4 (U+D84C, U+DFB4) after a well-formed
\* sequence, rejected with 2.
C11_Witness ==
    /\ pc = "done"
    /\ fn = "validate"
    /\ X = 8
    /\ ret = 2
    /\ LET s == BeforeZero(src)
           v == FirstViolation(8, s, 1)
       IN  /\ v > 1
           /\ v + 5 <= Len(s)
           /\ SubSeq(s, v, v + 5) = << \hED, \hA1, \h8C, \hED, \hBE, \hB4 >>

\* The unit of s at p is a high surrogate with no low surrogate right after it.
UnmatchedHigh(s, p) == IsHighSurrogate(s[p]) /\ ~IsLowSurrogate(Unit(s, p, 1))

C13_LoneLow ==
    (pc = "done" /\ fn = "validate" /\ X = 16 /\ ~swap)
    => LET s == BeforeZero(src)
           v == FirstViolation(16, s, 1)
       IN  (v > 0 /\ IsLowSurrogate(s[v])) => ret = 1

\* s with the byte order of each of its units reversed; UTF-8 units have
\* one byte and stay.
ByteSwapped(enc, s) ==
    [i \in 1 .. Len(s) |->
        IF enc = 8 THEN s[i]
        ELSE IF enc = 16 THEN (s[i] % 256) * 256 + (s[i] \div 256)
        ELSE W32((Lo16(s[i]) % 256) * 256 + (Lo16(s[i]) \div 256),
                 (Hi16(s[i]) % 256) * 256 + (Hi16(s[i]) \div 256))]

\* C14: validators honour the swap flag on every unit they read.  For a
\* zero-terminated UTF-16 or UTF-32 string S, validating byteswap(S) with
\* swap = true returns the code that validating S with swap = false returns.
\* (src here is byteswap(S), so S is byteswap(src).)
C14_ValidateSwap ==
    (pc = "done" /\ fn = "validate" /\ X \in { 16, 32 } /\ swap)
    => ret = utf_validate(X, ByteSwapped(X, src), FALSE).ret

\* The call of the state with swap = false, on the source in native order
\* and the same destination capacity.
Native == UTFCONV(X, Y, Filled(Len(conv.dest)), ByteSwapped(X, src), src_size, FALSE)

\* C15: transcoders honour the swap flag symmetrically.  A call with
\* swap = true returns the counts of the call with swap = false on the
\* byte-swapped source and writes that call's destination units byte-swapped;
\* UTF-8 units, source or destination, are never swapped.  The units past the
\* produced count are the same in both.
C15_TranscodeSwap ==
    (EncDone /\ swap)
    => LET native == Native
       IN  /\ ret = native.s
           /\ dest_size = native.d
           /\ Produced = ByteSwapped(Y, SubSeq(native.dest, 1, native.d))
           /\ SubSeq(conv.dest, dest_size + 1, Len(conv.dest))
                 = SubSeq(native.dest, native.d + 1, Len(native.dest))

\* A swap = true call from UTF-16 that decoded a stored, byte-swapped
\* surrogate pair and wrote its four UTF-8 bytes.
C15_Witness ==
    /\ EncDone
    /\ swap
    /\ X = 16
    /\ Y = 8
    /\ \E i \in 1 .. Len(conv.log) :
          /\ conv.log[i].consumed = 2
          /\ conv.log[i].produced = 4
          /\ conv.log[i].codepoint = \h1F601
          /\ SubSeq(src, conv.log[i].s + 1, conv.log[i].s + 2) = << \h3DD8, \h01DE >>

\* The index of the first zero unit of a buffer.
FirstZero(buf) == Len(BeforeZero(buf))

\* C16: no length estimator, validator or strlen routine reads a unit at an
\* index greater than that of the first zero unit of its buffer (rd is one
\* more than the highest index read).
C16_NoReadPastTerminator ==
    (pc = "done" /\ fn \in { "validate", "len", "strlen" })
    => rd <= FirstZero(src) + 1

\* C17: strlen_utf8, strlen_utf16 and strlen_utf32 return the index of the
\* first zero unit of the buffer whether or not the content is well formed: a
\* surrogate pair counts 2 units, and 2F C0 AE 2E 2F 00 has length 5 while
\* utf8_validate rejects it with 6.
C17_StrlenIsFirstZero ==
    /\ (pc = "done" /\ fn = "strlen") => ret = FirstZero(src)
    /\ (pc = "done" /\ fn = "validate" /\ X = 8
        /\ BeforeZero(src) = << \h2F, \hC0, \hAE, \h2E, \h2F >>)
       => (ret = 6 /\ strlen_utf8(src).ret = 5)

\* strlen_utf8 called on 2F C0 AE 2E 2F 00, which utf8_validate rejects
\* with 6, answering 5.
C17_Witness ==
    /\ pc = "done"
    /\ fn = "strlen"
    /\ X = 8
    /\ src = << \h2F, \hC0, \hAE, \h2E, \h2F, \h00 >>
    /\ ret = 5
    /\ utf8_validate(src, FALSE).ret = 6

\* The code of a 32-bit word as a codepoint: 2 for a surrogate, 3 for a word
\* above 0x10FFFF (the words from 2^31 on are held as negative numbers), else 0.
ScalarCode(w) == IF Between(w, \hD800, \hDFFF) THEN 2 ELSE IF IsScalar(w) THEN 0 ELSE 3

\* C18: utf32_validate (swap = false) returns the code of the first unit
\* before the terminator that is not a scalar value, 2 for a surrogate and 3
\* for a unit above 0x10FFFF, and 0 if there is none; the codepoint validator
\* returns that code for each unit of the buffer and for the words next to it.
C18_Utf32Validate ==
    (pc = "done" /\ fn = "validate" /\ X = 32 /\ ~swap)
    => LET s == BeforeZero(src)
           v == FirstViolation(32, s, 1)
       IN  /\ ret = IF v = 0 THEN 0 ELSE ScalarCode(s[v])
           /\ \A i \in 1 .. Len(src) :
                 \A w \in { src[i] - 1, src[i], src[i] + 1 } :
                    __codepoint_is_valid(w) = ScalarCode(w)

\* A string of scalar values up to U+10FFFF and then a unit above 0x10FFFF
\* followed by a surrogate, rejected with 3.
C18_Witness ==
    /\ pc = "done"
    /\ fn = "validate"
    /\ X = 32
    /\ ~swap
    /\ ret = 3
    /\ LET s == BeforeZero(src)
           v == FirstViolation(32, s, 1)
       IN  /\ v = 2
           /\ s[1] = \h10FFFF
           /\ Len(s) = 3
           /\ Between(s[3], \hD800, \hDFFF)

\* C19: UTF-16 decoder (native order).  At a high surrogate h followed by any
\* low surrogate l, 0xDC00 and 0xDFFF included, with at least 2 units
\* remaining, the decoder returns ((h & 0x3FF) << 10 | (l & 0x3FF)) + 0x10000
\* with 2 units consumed; it substitutes U+FFFD with 1 unit consumed only at a
\* high surrogate whose next unit is unavailable or not a low surrogate, or at
\* a lone low surrogate.
C19_Utf16Decoder ==
    (fn = "enc" /\ X = 16 /\ ~swap)
    => \A i \in 1 .. Len(conv.log) :
          LET e == conv.log[i]
              p == e.s + 1
              h == src[p]
              paired == /\ IsHighSurrogate(h)
                        /\ src_size - e.s >= 2
                        /\ IsLowSurrogate(src[p + 1])
          IN  /\ paired => /\ e.codepoint
                                = (h % 1024) * 1024 + (src[p + 1] % 1024) + \h10000
                           /\ e.consumed = 2
              /\ (e.codepoint = \hFFFD /\ h # \hFFFD)
                 => /\ e.consumed = 1
                    /\ ~paired
                    /\ IsHighSurrogate(h) \/ IsLowSurrogate(h)

\* The UTF-8 sequence of the scalar value c (Unicode table 3-6).
StdUtf8(c) ==
    IF MinLen8(c) = 1 THEN << c >>
    ELSE IF MinLen8(c) = 2 THEN << \hC0 + (c \div 64), \h80 + (c % 64) >>
    ELSE IF MinLen8(c) = 3
    THEN << \hE0 + (c \div 4096), \h80 + ((c \div 64) % 64), \h80 + (c % 64) >>
    ELSE << \hF0 + (c \div 262144), \h80 + ((c \div 4096) % 64),
            \h80 + ((c \div 64) % 64), \h80 + (c % 64) >>

\* C20: UTF-8 encoder, at the transcoder step just taken.  For a scalar
\* value c and a remaining capacity of at least L(c) it returns L(c) and
\* writes the standard UTF-8 sequence of c, which the UTF-8 decoder maps back
\* to c with L(c) consumed and utf8_validate accepts; when L(c) > 1 exceeds
\* the remaining capacity it returns 0 and every remaining unit is zero.
C20_Utf8Encoder ==
    (fn = "enc" /\ Y = 8 /\ conv.log # << >>)
    => LET e == conv.log[Len(conv.log)]
           c == e.codepoint
           L == MinLen8(c)
           room == Len(conv.dest) - e.d
           written == SubSeq(conv.dest, e.d + 1, e.d + L)
       IN  IsScalar(c)
           => /\ room >= L
                 => /\ e.produced = L
                    /\ written = StdUtf8(c)
                    /\ \A j \in 2 .. L : IsCont(written[j])
                    /\ __codepoint_from_utf8(written, 0, L).codepoint = c
                    /\ __codepoint_from_utf8(written, 0, L).consumed = L
                    /\ utf8_validate(written \o << 0 >>, FALSE).ret = 0
              /\ (L > 1 /\ L > room)
                 => /\ e.produced = 0
                    /\ \A j \in (e.d + 1) .. Len(conv.dest) : conv.dest[j] = 0

\* A call into UTF-8 that wrote the 2 bytes of U+07FF and then met U+0800,
\* whose 3 bytes did not fit the 2 units left, which are now zero.
C20_Witness ==
    /\ fn = "enc"
    /\ pc = "loop"
    /\ Y = 8
    /\ Len(conv.dest) = 4
    /\ Len(conv.log) = 2
    /\ conv.log[1].codepoint = \h7FF
    /\ conv.log[1].produced = 2
    /\ conv.log[2].codepoint = \h800
    /\ conv.log[2].produced = 0
    /\ conv.dest = << \hDF, \hBF, 0, 0 >>


\* ---------------------------------------------------------------------------
\* The number of units a UTF-8 lead byte announces, 1 to 6, read off the bit
\* pattern of the byte: 0xxxxxxx and 10xxxxxx stand alone, 110xxxxx announces
\* 2, 1110xxxx 3, 11110xxx 4, 111110xx 5 and 1111110x, 1111111x 6.
SeqLen8(b) ==
    IF b < \hC0 THEN 1
    ELSE IF b < \hE0 THEN 2
    ELSE IF b < \hF0 THEN 3
    ELSE IF b < \hF8 THEN 4
    ELSE IF b < \hFC THEN 5
    ELSE 6

\* The bias of a sequence of n units: what the marks 110xxxxx, 1110xxxx,
\* 11110xxx of the lead byte and 10xxxxxx of each trailing byte add to the sum.
Bias8(n) ==
    IF n = 1 THEN 0
    ELSE IF n = 2 THEN \hC0 * 64 + \h80
    ELSE IF n = 3 THEN \hE0 * 4096 + \h80 * 64 + \h80
    ELSE \hF0 * 262144 + \h80 * 4096 + \h80 * 64 + \h80

\* The sum of the n bytes of s from position p (1-based), each shifted six
\* bits further than the next.
RECURSIVE ByteSum8(_, _, _)
ByteSum8(s, p, n) == IF n = 0 THEN 0 ELSE ByteSum8(s, p, n - 1) * 64 + s[p + n - 1]

\* The decoded value of the n <= 4 bytes of s from p: the sum less the bias,
\* as a 32-bit word (a negative difference is a word above 0x7FFFFFFF).
DecodedValue8(s, p, n) == ByteSum8(s, p, n) - Bias8(n)

\* C21: every step of a transcoder from UTF-8, with r >= 1 units left and a
\* lead byte announcing n units, reports U+FFFD and r consumed when r < n,
\* U+FFFD and n consumed when r >= n and n > 4, and otherwise n consumed and
\* the decoded value, replaced by U+FFFD when it is a surrogate, above
\* 0x10FFFF, or not encoded in its minimal length.
C21_Utf8DecoderConsumed ==
    (fn = "enc" /\ X = 8 /\ conv.log # << >>)
    => LET e == conv.log[Len(conv.log)]
           r == src_size - e.s
           n == SeqLen8(src[e.s + 1])
           v == DecodedValue8(src, e.s + 1, n)
       IN  /\ r >= 1
           /\ r < n => (e.codepoint = UNICODE_REPL_CHAR /\ e.consumed = r)
           /\ (r >= n /\ n > 4) => (e.codepoint = UNICODE_REPL_CHAR /\ e.consumed = n)
           /\ (r >= n /\ n <= 4)
              => /\ e.consumed = n
                 /\ e.codepoint = IF ~IsScalar(v) \/ MinLen8(v) # n
                                  THEN UNICODE_REPL_CHAR
                                  ELSE v

\* A finished call on F8 88 80 80 80 E2 82: the five announced units were
\* consumed as one U+FFFD, and the two units left of an announced three as
\* another.
C21_Witness ==
    /\ EncDone
    /\ X = 8
    /\ src = << \hF8, \h88, \h80, \h80, \h80, \hE2, \h82 >>
    /\ Len(conv.log) = 2
    /\ conv.log[1].codepoint = UNICODE_REPL_CHAR
    /\ conv.log[1].consumed = 5
    /\ conv.log[2].s = 5
    /\ conv.log[2].codepoint = UNICODE_REPL_CHAR
    /\ conv.log[2].consumed = 2
    /\ ret = 7

\* ---------------------------------------------------------------------------
\* The offset from the lead byte at p of the first of the n - 1 trailing units
\* of s that is not of the form 10xxxxxx (the terminator, read as 0 past the
\* end of s, is such a unit), or 0 when all of them are.
BadTrail8(s, p, n) ==
    LET bad == { j \in 1 .. (n - 1) : ~IsCont(Unit(s, p, j)) }
    IN  IF bad = {} THEN 0 ELSE CHOOSE j \in bad : \A k \in bad : j <= k

\* C22: when the first violation of a UTF-8 string is a sequence announced as
\* 2 to 4 units with a trailing unit that is not 10xxxxxx or is the
\* terminator, utf8_validate returns 4 and has read no unit after that one.
C22_BadTrailing ==
    (pc = "done" /\ fn = "validate" /\ X = 8)
    => LET s == BeforeZero(src)
           v == FirstViolation(8, s, 1)
       IN  (v > 0 /\ Announced8(s[v]) >= 2 /\ BadTrail8(s, v, Announced8(s[v])) > 0)
           => /\ ret = 4
              /\ rd <= v + BadTrail8(s, v, Announced8(s[v]))

\* A finished validation of a string that is well formed up to a sequence
\* announced as 4 units whose second trailing unit is the terminator: the
\* validator returned 4 having read up to the terminator and not the unit
\* that follows it.
C22_Witness ==
    /\ pc = "done"
    /\ fn = "validate"
    /\ X = 8
    /\ ret = 4
    /\ LET s == BeforeZero(src)
           v == FirstViolation(8, s, 1)
       IN  /\ v > 1
           /\ Announced8(s[v]) = 4
           /\ BadTrail8(s, v, 4) = 2
           /\ v + 2 = Len(s) + 1
           /\ Len(src) > Len(s) + 1
           /\ rd = Len(s) + 1

\* ---------------------------------------------------------------------------
\* The UTF-16 encoding of the scalar value c, from the standard's layout: c
\* itself below 0x10000, else the surrogate pair carrying c - 0x10000.
StdUtf16(c) ==
    IF c < \h10000 THEN << c >>
    ELSE << \hD800 + ((c - \h10000) \div 1024), \hDC00 + ((c - \h10000) % 1024) >>

\* C23: in a transcoder into UTF-16 the units counted as produced follow one
\* another from the start of the destination; a step that decoded a codepoint
\* of 0x10000 or more with exactly one unit left wrote a zero there, counted
\* it (the count reaches the capacity), moved the source past the codepoint
\* and was the last step of the call; every other step that counted units
\* wrote the whole UTF-16 encoding of its codepoint, a scalar value (in the
\* requested byte order).
C23_Utf16CapacityFault ==
    (fn = "enc" /\ Y = 16)
    => \A k \in 1 .. Len(conv.log) :
          LET e == conv.log[k]
              room == Len(conv.dest) - e.d
              after == IF k < Len(conv.log) THEN conv.log[k + 1].d ELSE conv.d
              written == SubSeq(conv.dest, e.d + 1, e.d + e.produced)
          IN  /\ k = 1 => e.d = 0
              /\ e.codepoint # 0
                 => /\ after = e.d + e.produced
                    /\ IF e.codepoint >= \h10000 /\ room = 1
                       THEN /\ e.produced = 1
                            /\ conv.dest[e.d + 1] = 0
                            /\ k = Len(conv.log)
                            /\ conv.d = Len(conv.dest)
                            /\ conv.s = e.s + e.consumed
                            /\ ~UTFCONV_cond(conv, src_size)
                            /\ pc = "done" => (dest_size = Len(conv.dest) /\ ret = e.s + e.consumed)
                       ELSE /\ IsScalar(e.codepoint)
                            /\ e.produced = Len(StdUtf16(e.codepoint))
                            /\ written = IF swap THEN ByteSwapped(16, StdUtf16(e.codepoint))
                                                 ELSE StdUtf16(e.codepoint)

\* A finished call from UTF-8 into a single UTF-16 unit with more source
\* left: the only step decoded U+10000 from four bytes, and the call returned
\* with that unit zero, one unit produced, four bytes consumed and the fifth
\* byte of the source not converted.
C23_Witness ==
    /\ EncDone
    /\ X = 8
    /\ Y = 16
    /\ src = << \hF0, \h90, \h80, \h80, \h2F >>
    /\ Len(conv.dest) = 1
    /\ Len(conv.log) = 1
    /\ conv.log[1].codepoint = \h10000
    /\ conv.log[1].produced = 1
    /\ conv.dest = << 0 >>
    /\ dest_size = 1
    /\ ret = 4

\* ---------------------------------------------------------------------------
\* Inside a transcoder call every iteration taken so far reported at least
\* one unit consumed, every iteration but a breaking last one moved the source
\* by what it reported, and no more iterations were taken than the source has
\* units.
Progress ==
    fn = "enc"
    => /\ Len(conv.log) <= src_size
       /\ \A k \in 1 .. Len(conv.log) :
             LET e == conv.log[k]
                 next == IF k < Len(conv.log) THEN conv.log[k + 1].s ELSE conv.s
             IN  /\ e.consumed >= 1
                 /\ e.codepoint # 0 => next = e.s + e.consumed
                 /\ e.codepoint = 0 => (k = Len(conv.log) /\ conv.brk)

\* C24: every transcoder call terminates: each iteration that does not break
\* moves the source on by at least one unit, whatever the encoder reported,
\* so at most src_size iterations are taken, and no call stays inside its
\* loop for ever: a call that entered it has returned at some later point.
C24_Terminates == [] Progress /\ []<>(pc # "loop")

\* A finished call into UTF-8 in which an iteration's encoder reported 0 chars
\* produced, the source moved on all the same, and the call returned after as
\* many iterations as the source has units, all of them consumed.
C24_Witness ==
    /\ EncDone
    /\ Y = 8
    /\ src_size >= 2
    /\ Len(conv.log) = src_size
    /\ ret = src_size
    /\ \E k \in 1 .. (Len(conv.log) - 1) :
          /\ conv.log[k].produced = 0
          /\ conv.log[k].codepoint # 0
          /\ conv.log[k + 1].s = conv.log[k].s + conv.log[k].consumed
=============================================================================
